---- MODULE Spec2Model ----
(***************************************************************************)
(* 2D shadow casting by line-line intersections                            *)
(* (src/shadow_casting_pygame.py).                                         *)
(*                                                                         *)
(* Numbers.  The program computes in floating point; the model computes    *)
(* exactly, so that every comparison the code makes (== 0, 0 < u < 1,      *)
(* t < 0, distance < closest, the angle sort) has a definite outcome:      *)
(*   - coordinates of shapes, screen corners and light positions are       *)
(*     integers, as in the program;                                        *)
(*   - `error` (1e-10 rad, cast_rays) is a positive quantity Eps smaller   *)
(*     than any angle two distinct directions between such points can      *)
(*     differ by.  A number that depends on it is the pair <<a, b>>,       *)
(*     standing for a + b*Eps, and signs are decided by a, then by b;      *)
(*   - a quotient is kept as the pair <<numerator, denominator>>;          *)
(*   - an angle theta is kept as the shortest integer vector <<c, s>>      *)
(*     along (cos theta, sin theta) plus its multiple of Eps, so a ray's   *)
(*     parameter t is measured in units of that vector's length instead of *)
(*     pixels (the same positive factor for every segment one ray meets).  *)
(***************************************************************************)
EXTENDS Integers, Sequences, FiniteSets, TLC

VARIABLES
    line1, line2, kernel,           \* compute_line_line_intersection: arguments, outcome
    ray, segments, closest,         \* Ray.get_closest_intersection: self, argument, outcome
    shapes,                         \* the argument of Map(shapes)
    polygons, lines, ray_targets,   \* Map.polygons, Map.lines, Map.ray_targets
    position, rays, triangles,      \* ShadowCaster.position, .rays, .triangles
    mouse,                          \* what pg.mouse.get_pos() returns
    call, args, raised              \* the last operation called, the lines and targets
                                    \* it was given, and the exception it ended in

vars == <<line1, line2, kernel, ray, segments, closest, shapes, polygons, lines,
          ray_targets, position, rays, triangles, mouse, call, args, raised>>

kernelVars == <<line1, line2, kernel>>
rayVars    == <<ray, segments, closest>>
mapVars    == <<shapes, polygons, lines, ray_targets>>
casterVars == <<position, rays, triangles>>

(***************************************************************************)
(* Exact arithmetic                                                        *)
(***************************************************************************)
Abs(a) == IF a < 0 THEN -a ELSE a

Sgn(a) == IF a > 0 THEN 1 ELSE IF a < 0 THEN -1 ELSE 0

RECURSIVE Gcd(_, _)
Gcd(a, b) == IF b = 0 THEN Abs(a) ELSE Gcd(Abs(b), Abs(a) % Abs(b))

\* a + b*Eps, with a and b integers
E(a) == <<a, 0>>

EAdd(p, q) == <<p[1] + q[1], p[2] + q[2]>>

ESub(p, q) == <<p[1] - q[1], p[2] - q[2]>>

\* the product; exact whenever one factor does not depend on Eps, which is
\* so of every product the program forms (segments and origins are exact)
EMul(p, q) == <<p[1] * q[1], p[1] * q[2] + p[2] * q[1]>>

ESgn(p) == IF p[1] # 0 THEN Sgn(p[1]) ELSE Sgn(p[2])

\* the quotient num / den (den # 0) in lowest terms, denominator positive
Quot(num, den) ==
    LET reduced(g, s) == << <<s * (num[1] \div g), s * (num[2] \div g)>>,
                            <<s * (den[1] \div g), s * (den[2] \div g)>> >>
    IN  reduced(Gcd(Gcd(num[1], num[2]), Gcd(den[1], den[2])), ESgn(den))

QSgn(q) == ESgn(q[1]) * ESgn(q[2])

\* q < r for two quotients
QLess(q, r) ==
    ESgn(ESub(EMul(q[1], r[2]), EMul(r[1], q[2]))) * ESgn(q[2]) * ESgn(r[2]) < 0

QEq(q, r) == ESub(EMul(q[1], r[2]), EMul(r[1], q[2])) = <<0, 0>>

\* x + q * d for exact x, quotient q and number d
QAxpy(x, q, d) == Quot(EAdd(EMul(x, q[2]), EMul(q[1], d)), q[2])

\* a quotient that does not depend on Eps, as the rational <<n, d>>
Rat(q) == <<q[1][1], q[2][1]>>

\* the value of a quotient with Eps taken to 0 (finite for every accepted hit)
Std(q) ==
    LET reduced(n, d, g) == <<Sgn(d) * (n \div g), Sgn(d) * (d \div g)>>
    IN  IF q[2][1] # 0
        THEN reduced(q[1][1], q[2][1], Gcd(q[1][1], q[2][1]))
        ELSE reduced(q[1][2], q[2][2], Gcd(q[1][2], q[2][2]))

\* a point of quotients with Eps taken to 0
StdPt(h) == <<Std(h[1]), Std(h[2])>>

\* the rational n / d (d # 0) in lowest terms, denominator positive
Frac(n, d) ==
    LET reduced(g) == <<Sgn(d) * (n \div g), Sgn(d) * (d \div g)>>
    IN  reduced(Gcd(n, d))

FracSub(p, q) == Frac(p[1] * q[2] - q[1] * p[2], p[2] * q[2])

FracMul(p, q) == Frac(p[1] * q[1], p[2] * q[2])

\* the side of the line a -> b that c is on: the sign of (b - a) x (c - a)
Side(a, b, c) ==
    Sgn(FracSub(FracMul(FracSub(b[1], a[1]), FracSub(c[2], a[2])),
                FracMul(FracSub(b[2], a[2]), FracSub(c[1], a[1])))[1])

\* the segments a-b and c-d cross at a point inside both
Crosses(a, b, c, d) ==
    /\ Side(a, b, c) * Side(a, b, d) < 0
    /\ Side(c, d, a) * Side(c, d, b) < 0

\* a function on 1..n as the list of its values
list(f) == f \o <<>>

(***************************************************************************)
(* Program constants                                                       *)
(***************************************************************************)
SCREEN_WIDTH == 800

SCREEN_HEIGHT == 600

SCREEN_TL == <<0, 0>>

SCREEN_TR == <<SCREEN_WIDTH, 0>>

SCREEN_BL == <<0, SCREEN_HEIGHT>>

SCREEN_BR == <<SCREEN_WIDTH, SCREEN_HEIGHT>>

SCREEN_EDGES ==
    << <<SCREEN_TL, SCREEN_TR>>,
       <<SCREEN_TR, SCREEN_BR>>,
       <<SCREEN_BR, SCREEN_BL>>,
       <<SCREEN_BL, SCREEN_TL>> >>

SHAPES ==
    << << <<200, 200>>, <<100, 300>>, <<100, 150>>, <<200, 200>> >>,
       << <<150, 450>>, <<100, 350>>, <<250, 300>>, <<150, 450>> >>,
       << <<250, 150>>, <<250, 50>>, <<350, 50>>, <<350, 150>>, <<250, 150>> >>,
       << <<450, 100>>, <<550, 200>> >>,
       << <<450, 200>>, <<550, 100>> >>,
       << <<250, 500>>, <<450, 500>>, <<450, 400>>, <<350, 400>>, <<250, 500>> >>,
       << <<650, 500>>, <<600, 500>>, <<600, 455>> >>,
       << <<600, 450>>, <<600, 430>> >>,
       << <<600, 425>>, <<600, 405>> >>,
       << <<600, 400>>, <<600, 380>> >>,
       << <<600, 375>>, <<600, 355>> >>,
       << <<600, 350>>, <<600, 330>> >>,
       << <<600, 325>>, <<600, 305>> >>,
       << <<600, 300>>, <<600, 280>> >>,
       << <<600, 275>>, <<600, 250>>, <<650, 250>>, <<650, 100>>, <<650, 50>>,
          <<750, 50>>, <<750, 450>>, <<700, 500>> >>,
       << <<700, 350>>, <<700, 450>>, <<650, 450>>, <<650, 300>>, <<700, 300>>,
          <<700, 100>> >> >>

(***************************************************************************)
(* compute_line_line_intersection                                          *)
(***************************************************************************)
\* a line through two integer points, as the kernel reads it
ELine(line) == << <<E(line[1][1]), E(line[1][2])>>, <<E(line[2][1]), E(line[2][2])>> >>

\* the determinant with the sign between its two products wrong
denominator_plus(l1, l2) ==
    EAdd(EMul(ESub(l1[1][1], l1[2][1]), ESub(l2[1][2], l2[2][2])),
         EMul(ESub(l1[1][2], l1[2][2]), ESub(l2[1][1], l2[2][1])))

denominator(l1, l2) ==
    ESub(EMul(ESub(l1[1][1], l1[2][1]), ESub(l2[1][2], l2[2][2])),
         EMul(ESub(l1[1][2], l1[2][2]), ESub(l2[1][1], l2[2][1])))

\* compute_line_line_intersection with the two products of u exchanged
compute_line_line_intersection_u_negated(l1, l2) ==
    LET point(t, u) ==
            [exc |-> "none",
             x |-> QAxpy(l1[1][1], t, ESub(l1[2][1], l1[1][1])),
             y |-> QAxpy(l1[1][2], t, ESub(l1[2][2], l1[1][2])),
             t |-> t,
             u |-> u]
        divided(den) ==
            IF den = <<0, 0>>
            THEN [exc |-> "ZeroDivisionError"]
            ELSE point(
                Quot(ESub(EMul(ESub(l1[1][1], l2[1][1]), ESub(l2[1][2], l2[2][2])),
                          EMul(ESub(l1[1][2], l2[1][2]), ESub(l2[1][1], l2[2][1]))),
                     den),
                Quot(ESub(EMul(ESub(l1[1][2], l2[1][2]), ESub(l1[1][1], l1[2][1])),
                          EMul(ESub(l1[1][1], l2[1][1]), ESub(l1[1][2], l1[2][2]))),
                     den))
    IN  divided(denominator(l1, l2))

\* exc is the exception raised, "none" when the function returns
compute_line_line_intersection(l1, l2) ==
    LET point(x_1, y_1, x_2, y_2, t, u) ==
            [exc |-> "none",
             x |-> QAxpy(x_1, t, ESub(x_2, x_1)),
             y |-> QAxpy(y_1, t, ESub(y_2, y_1)),
             t |-> t,
             u |-> u]
        divided(x_1, y_1, x_2, y_2, x_3, y_3, x_4, y_4, den) ==
            IF den = <<0, 0>>
            THEN [exc |-> "ZeroDivisionError"]
            ELSE point(x_1, y_1, x_2, y_2,
                       Quot(ESub(EMul(ESub(x_1, x_3), ESub(y_3, y_4)),
                                 EMul(ESub(y_1, y_3), ESub(x_3, x_4))), den),
                       Quot(ESub(EMul(ESub(x_1, x_3), ESub(y_1, y_2)),
                                 EMul(ESub(y_1, y_3), ESub(x_1, x_2))), den))
    IN  divided(l1[1][1], l1[1][2], l1[2][1], l1[2][2],
                l2[1][1], l2[1][2], l2[2][1], l2[2][2], denominator(l1, l2))

(***************************************************************************)
(* Ray                                                                     *)
(***************************************************************************)
None == <<>>

\* np.arctan2(y, x) for rationals y = <<yn, yd>>, x = <<xn, xd>>: the shortest
\* integer vector along (x, y); arctan2(0, 0) is 0, the direction (1, 0)
arctan2(y, x) ==
    LET shortest(vx, vy, g) == IF g = 0 THEN <<1, 0>> ELSE <<vx \div g, vy \div g>>
    IN  shortest(x[1] * y[2], y[1] * x[2], Gcd(x[1] * y[2], y[1] * x[2]))

\* np.cos and np.sin of theta = [c |-> <<c, s>>, e |-> k], the angle of
\* <<c, s>> plus k*Eps, to first order in Eps and up to the length of <<c, s>>
cos(theta) == <<theta.c[1], -(theta.e * theta.c[2])>>

sin(theta) == <<theta.c[2], theta.e * theta.c[1]>>

\* update_position with the direction point on the wrong side of the origin
update_position_plus(self, origin) ==
    [self EXCEPT !.origin = origin,
                 !.direction = <<EAdd(E(origin[1]), cos(self.theta)),
                                 EAdd(E(origin[2]), sin(self.theta))>>]

update_position(self, origin) ==
    [self EXCEPT !.origin = origin,
                 !.direction = <<ESub(E(origin[1]), cos(self.theta)),
                                 ESub(E(origin[2]), sin(self.theta))>>]

Ray(origin, angle) ==
    update_position([theta |-> angle, origin |-> None, direction |-> None], origin)

\* compute_ray_section_intersection with the segment's endpoints let in
compute_ray_section_intersection_closed(self, line) ==
    LET checked(r) ==
            IF r.exc # "none"
            THEN [exc |-> r.exc]
            ELSE IF ~(QSgn(r.u) >= 0 /\ ~QLess(<<E(1), E(1)>>, r.u))
            THEN [exc |-> "ValueError"]
            ELSE IF QSgn(r.t) < 0
            THEN [exc |-> "ValueError"]
            ELSE [exc |-> "none", x |-> r.x, y |-> r.y, t |-> r.t]
    IN  checked(compute_line_line_intersection(
                    << <<E(self.origin[1]), E(self.origin[2])>>, self.direction >>,
                    ELine(line)))

compute_ray_section_intersection(self, line) ==
    LET checked(r) ==
            IF r.exc # "none"
            THEN [exc |-> r.exc]
            ELSE IF ~(QSgn(r.u) > 0 /\ QLess(r.u, <<E(1), E(1)>>))
            THEN [exc |-> "ValueError"]
            ELSE IF QSgn(r.t) < 0
            THEN [exc |-> "ValueError"]
            ELSE [exc |-> "none", x |-> r.x, y |-> r.y, t |-> r.t]
    IN  checked(compute_line_line_intersection(
                    << <<E(self.origin[1]), E(self.origin[2])>>, self.direction >>,
                    ELine(line)))

\* the loop of get_closest_intersection from segment i on; closest is None
\* for np.Infinity
RECURSIVE closest_loop(_, _, _, _, _)
closest_loop(self, lns, i, dist, intersection) ==
    IF i > Len(lns)
    THEN intersection
    ELSE LET step(r) ==
                 IF r.exc = "none" /\ (dist = None \/ QLess(r.t, dist))
                 THEN closest_loop(self, lns, i + 1, r.t, <<r.x, r.y>>)
                 ELSE closest_loop(self, lns, i + 1, dist, intersection)
         IN  step(compute_ray_section_intersection(self, lns[i]))

get_closest_intersection(self, lns) == closest_loop(self, lns, 1, None, None)

(***************************************************************************)
(* ShadowCaster                                                            *)
(***************************************************************************)
\* a point whose coordinates are the rationals <<n, d>>; Python compares an
\* int and a float by value, and so does the model once both are rationals
Pt(p) == << <<p[1], 1>>, <<p[2], 1>> >>

\* no offset at all
no_error == <<0, 0>>

\* error = 1e-10, one Eps
error == <<0, 1>>

\* angle1 < angle2, for angles in (-pi, pi] plus multiples of Eps
HalfTurn(c) ==
    IF c[2] < 0 THEN 0
    ELSE IF c[2] = 0 /\ c[1] > 0 THEN 1
    ELSE IF c[2] > 0 THEN 2
    ELSE 3

AngleLess(a, b) ==
    \/ HalfTurn(a.c) < HalfTurn(b.c)
    \/ /\ HalfTurn(a.c) = HalfTurn(b.c)
       /\ a.c[1] * b.c[2] - a.c[2] * b.c[1] > 0
    \/ /\ a.c = b.c
       /\ a.e < b.e

\* angles.sort(): each angle goes to the place its rank gives it (the sort
\* is stable: equal angles keep their order)
sort(angles) ==
    LET n == Len(angles)
        rank == list([k \in 1..n |->
                    Cardinality({j \in 1..n : AngleLess(angles[j], angles[k])})
                    + Cardinality({j \in 1..(k - 1) :
                                     /\ ~AngleLess(angles[j], angles[k])
                                     /\ ~AngleLess(angles[k], angles[j])})
                    + 1])
    IN  list([i \in 1..n |-> angles[CHOOSE k \in 1..n : rank[k] = i]])

\* the points with no point dropped
repeated(points) == points

\* list(set(points)): the distinct points, each at its first place in points
\* (cast_rays sorts what it derives from them, so their order is immaterial)
distinct(points) ==
    LET firsts == {i \in DOMAIN points : \A j \in 1..(i - 1) : points[j] # points[i]}
    IN  list([k \in 1..Cardinality(firsts) |->
            points[CHOOSE i \in firsts : Cardinality({j \in firsts : j < i}) = k - 1]])

\* np.arctan2(y - point[1], x - point[0]) for x, y = pos
angle_to(pos, point) ==
    arctan2(<<pos[2] * point[2][2] - point[2][1], point[2][2]>>,
            <<pos[1] * point[1][2] - point[1][1], point[1][2]>>)

\* the angles cast_rays collects, before it sorts them
cast_angles(pos, points) ==
    LET both(ps) ==
            list([k \in 1..(2 * Len(ps)) |->
                [c |-> angle_to(pos, ps[(k + 1) \div 2]),
                 e |-> IF k % 2 = 1 THEN -error[2] ELSE error[2]]])
    IN  both(distinct(points))

\* the value cast_rays gives self.rays
cast_rays(pos, points) ==
    LET aimed(angles) == list([i \in DOMAIN angles |-> Ray(pos, angles[i])])
    IN  aimed(sort(cast_angles(pos, points)))

\* _get_rays_intersections: the list it returns, or the TypeError it raises
\* at the first ray with no intersection
get_rays_intersections(rs, lns) ==
    LET all(found) ==
            IF \E i \in DOMAIN rs : found[i] = None
            THEN [exc |-> "TypeError", intersections |-> <<>>]
            ELSE [exc |-> "none", intersections |-> found]
    IN  all(list([i \in DOMAIN rs |-> get_closest_intersection(rs[i], lns)]))

\* the triangles without the one that closes the fan
fan_open(pos, vertices) ==
    list([i \in 1..(Len(vertices) - 2) |-> <<pos, vertices[i], vertices[i + 1]>>])

\* the triangles built from the vertices with vertices[0] appended
fan(pos, vertices) ==
    list([i \in 1..(Len(vertices) - 1) |-> <<pos, vertices[i], vertices[i + 1]>>])

\* update_triangles on the caster self = [position, rays, triangles]: the
\* caster it leaves and the exception it ends in
update_triangles(self, lns, targets) ==
    LET build(cast, vertices) ==
            IF vertices = <<>>
            THEN [self |-> [cast EXCEPT !.triangles = <<>>], exc |-> "IndexError"]
            ELSE [self |-> [cast EXCEPT !.triangles =
                                fan(self.position, Append(vertices, vertices[1]))],
                  exc |-> "none"]
        collect(cast, got) ==
            IF got.exc # "none"
            THEN [self |-> cast, exc |-> got.exc]
            ELSE build(cast, got.intersections)
        intersect(cast) == collect(cast, get_rays_intersections(cast.rays, lns))
    IN  intersect([self EXCEPT !.rays = cast_rays(self.position, targets)])

(***************************************************************************)
(* Map                                                                     *)
(***************************************************************************)
\* zip(line, line[1:]) with the edge back to the first point added
pairs_closed(line) == list([k \in 1..Len(line) |-> <<line[k], line[(k % Len(line)) + 1]>>])

\* zip(line, line[1:])
pairs(line) == list([k \in 1..(Len(line) - 1) |-> <<line[k], line[k + 1]>>])

RECURSIVE get_lines_from(_, _, _)
get_lines_from(polys, i, lns) ==
    IF i > Len(polys)
    THEN lns
    ELSE IF Len(polys[i]) > 2
    THEN get_lines_from(polys, i + 1, lns \o pairs(polys[i]))
    ELSE get_lines_from(polys, i + 1, Append(lns, polys[i]))

\* _get_lines
get_lines(polys) == get_lines_from(polys, 1, SCREEN_EDGES)

\* _get_lines_intersections with t = 0, t = 1, u = 0 and u = 1 let in
get_lines_intersections_closed(lns) ==
    LET hit(i, j) == compute_line_line_intersection(ELine(lns[i]), ELine(lns[j]))
        inside(q) == QSgn(q) >= 0 /\ ~QLess(<<E(1), E(1)>>, q)
    IN  { <<Rat(hit(ij[1], ij[2]).x), Rat(hit(ij[1], ij[2]).y)>> :
            ij \in { p \in (DOMAIN lns) \X (DOMAIN lns) :
                        /\ p[1] <= p[2]
                        /\ hit(p[1], p[2]).exc = "none"
                        /\ inside(hit(p[1], p[2]).t)
                        /\ inside(hit(p[1], p[2]).u) } }

\* _get_lines_intersections
get_lines_intersections(lns) ==
    LET hit(i, j) == compute_line_line_intersection(ELine(lns[i]), ELine(lns[j]))
        inside(q) == QSgn(q) > 0 /\ QLess(q, <<E(1), E(1)>>)
    IN  { <<Rat(hit(ij[1], ij[2]).x), Rat(hit(ij[1], ij[2]).y)>> :
            ij \in { p \in (DOMAIN lns) \X (DOMAIN lns) :
                        /\ p[1] <= p[2]
                        /\ hit(p[1], p[2]).exc = "none"
                        /\ inside(hit(p[1], p[2]).t)
                        /\ inside(hit(p[1], p[2]).u) } }

\* list(s) for a set s, in the set's own order
RECURSIVE listed(_)
listed(s) ==
    IF s = {} THEN <<>>
    ELSE LET p == CHOOSE q \in s : TRUE IN <<p>> \o listed(s \ {p})

\* [point for line in lines for point in line], every line a pair of points
endpoints(lns) ==
    list([k \in 1..(2 * Len(lns)) |-> Pt(lns[(k + 1) \div 2][2 - (k % 2)])])

\* _get_ray_targets
get_ray_targets(lns) == endpoints(lns) \o listed(get_lines_intersections(lns))

(***************************************************************************)
(* Game                                                                    *)
(***************************************************************************)
\* the test of Game.update with the border of the screen let in
cursor_inside_closed(cursor_x, cursor_y) ==
    ~(~(0 <= cursor_x /\ cursor_x <= SCREEN_WIDTH)
      \/ ~(0 <= cursor_y /\ cursor_y <= SCREEN_HEIGHT))

\* Game.update goes on past its early return
cursor_inside(cursor_x, cursor_y) ==
    ~(~(0 < cursor_x /\ cursor_x < SCREEN_WIDTH)
      \/ ~(0 < cursor_y /\ cursor_y < SCREEN_HEIGHT))

(***************************************************************************)
(* The variables a specification does not use                              *)
(***************************************************************************)
KernelIdle == line1 = None /\ line2 = None /\ kernel = None

RayIdle == ray = None /\ segments = <<>> /\ closest = None

MapIdle == shapes = <<>> /\ polygons = <<>> /\ lines = <<>> /\ ray_targets = <<>>

NoArgs == [lines |-> <<>>, targets |-> <<>>]

CasterIdle == position = <<0, 0>> /\ rays = <<>> /\ triangles = <<>>

(***************************************************************************)
(* compute_line_line_intersection on every pair of lines through points    *)
(* of a small grid                                                         *)
(***************************************************************************)
KernelGrid == 2

KernelPoints == {<<5 * i, 5 * j>> : i \in 0..KernelGrid, j \in 0..KernelGrid}

KernelLines == KernelPoints \X KernelPoints

KernelInit ==
    /\ line1 \in KernelLines
    /\ line2 \in KernelLines
    /\ kernel = None
    /\ RayIdle /\ MapIdle /\ CasterIdle
    /\ mouse = <<0, 0>>
    /\ call = "none"
    /\ args = NoArgs
    /\ raised = "none"

Intersect ==
    /\ call = "none"
    /\ kernel' = compute_line_line_intersection(ELine(line1), ELine(line2))
    /\ call' = "compute_line_line_intersection"
    /\ raised' = kernel'.exc
    /\ UNCHANGED <<line1, line2, rayVars, mapVars, casterVars, mouse, args>>

KernelNext == Intersect

SpecKernel == KernelInit /\ [][KernelNext]_vars

Intersected == call = "compute_line_line_intersection"

\* C4: compute_line_line_intersection raises ZeroDivisionError exactly when the
\* determinant (x1-x2)(y3-y4) - (y1-y2)(x3-x4) is zero, and otherwise returns
\* (x, y, t, u) with (x, y) = line1[0] + t*(line1[1]-line1[0])
\* = line2[0] + u*(line2[1]-line2[0]), whatever t and u are; the lines
\* ((0,0),(10,10)) and ((0,10),(10,0)) give (5,5) with t = u = 1/2.
C4_Kernel ==
    Intersected =>
        LET x1 == line1[1][1]
            y1 == line1[1][2]
            x2 == line1[2][1]
            y2 == line1[2][2]
            x3 == line2[1][1]
            y3 == line2[1][2]
            x4 == line2[2][1]
            y4 == line2[2][2]
            det == (x1 - x2) * (y3 - y4) - (y1 - y2) * (x3 - x4)
            x == Rat(kernel.x)
            y == Rat(kernel.y)
            t == Rat(kernel.t)
            u == Rat(kernel.u)
        IN  /\ (kernel.exc = "ZeroDivisionError") <=> (det = 0)
            /\ kernel.exc = "none" =>
                /\ x[1] * t[2] = x[2] * (x1 * t[2] + t[1] * (x2 - x1))
                /\ y[1] * t[2] = y[2] * (y1 * t[2] + t[1] * (y2 - y1))
                /\ x[1] * u[2] = x[2] * (x3 * u[2] + u[1] * (x4 - x3))
                /\ y[1] * u[2] = y[2] * (y3 * u[2] + u[1] * (y4 - y3))
            /\ (line1 = << <<0, 0>>, <<10, 10>> >> /\ line2 = << <<0, 10>>, <<10, 0>> >>) =>
                /\ kernel.exc = "none"
                /\ x = <<5, 1>> /\ y = <<5, 1>>
                /\ t = <<1, 2>> /\ u = <<1, 2>>

\* the scenario's lines have been intersected, and so have two lines that
\* meet outside both segments (t > 1, u < 0)
C4_Witness ==
    /\ Intersected
    /\ line1 = << <<0, 0>>, <<10, 10>> >>
    /\ line2 = << <<0, 10>>, <<10, 0>> >>
    /\ kernel.exc = "none"

C4_WitnessUnclipped ==
    /\ Intersected
    /\ kernel.exc = "none"
    /\ QLess(<<E(1), E(1)>>, kernel.t)
    /\ QSgn(kernel.u) < 0

\* C5: for lines A, B, compute_line_line_intersection(B, A) raises exactly
\* when compute_line_line_intersection(A, B) does, and otherwise returns the
\* same point with t and u exchanged.
C5_Swap ==
    Intersected =>
        LET swapped == compute_line_line_intersection(ELine(line2), ELine(line1))
        IN  /\ swapped.exc = kernel.exc
            /\ kernel.exc = "none" =>
                /\ swapped.x = kernel.x
                /\ swapped.y = kernel.y
                /\ swapped.t = kernel.u
                /\ swapped.u = kernel.t

\* two different lines that are not parallel have been intersected, with
\* t # u
C5_Witness ==
    /\ Intersected
    /\ kernel.exc = "none"
    /\ line1 # line2
    /\ kernel.t # kernel.u

(***************************************************************************)
(* Ray.get_closest_intersection on rays from a few origins (inside, on the  *)
(* border of and outside the screen, on a wall) at and beside the angles of *)
(* a few points, against the lines of a few shapes with and without the     *)
(* screen edges                                                             *)
(***************************************************************************)
RayShapes == 2

\* the runs of at most n consecutive SHAPES
Runs(n) ==
    {SubSeq(SHAPES, i, i + k - 1) :
        <<i, k>> \in {w \in (1..Len(SHAPES)) \X (0..n) : w[1] + w[2] - 1 <= Len(SHAPES)}}

RaySegments ==
    UNION {{get_lines(run), SubSeq(get_lines(run), 5, Len(get_lines(run)))} :
              run \in Runs(RayShapes)}

RayOrigins ==
    {<<400, 300>>, <<300, 300>>, <<500, 150>>, <<100, 500>>, <<-100, 300>>, <<800, 300>>}

RayAims ==
    {SCREEN_TL, SCREEN_TR, SCREEN_BL, SCREEN_BR,
     <<500, 150>>, <<450, 100>>, <<200, 200>>, <<600, 300>>}

RayInit ==
    /\ \E origin \in RayOrigins, aim \in RayAims, k \in {-1, 0, 1} :
           ray = Ray(origin, [c |-> arctan2(<<origin[2] - aim[2], 1>>,
                                            <<origin[1] - aim[1], 1>>),
                              e |-> k * error[2]])
    /\ segments \in RaySegments
    /\ closest = None
    /\ KernelIdle /\ MapIdle /\ CasterIdle
    /\ mouse = <<0, 0>>
    /\ call = "none"
    /\ args = NoArgs
    /\ raised = "none"

\* get_closest_intersection catches what compute_ray_section_intersection raises
GetClosest ==
    /\ call = "none"
    /\ closest' = get_closest_intersection(ray, segments)
    /\ call' = "get_closest_intersection"
    /\ raised' = "none"
    /\ UNCHANGED <<ray, segments, kernelVars, mapVars, casterVars, mouse, args>>

RayNext == GetClosest

SpecRay == RayInit /\ [][RayNext]_vars

Closed == call = "get_closest_intersection"

StrictlyInside(p) ==
    /\ 0 < p[1] /\ p[1] < SCREEN_WIDTH
    /\ 0 < p[2] /\ p[2] < SCREEN_HEIGHT

HasScreenEdges(lns) ==
    \A k \in DOMAIN SCREEN_EDGES : \E i \in DOMAIN lns : lns[i] = SCREEN_EDGES[k]

\* C1: a ray whose origin lies strictly inside the screen, cast against
\* segments that include the 4 screen edges, always gets a point from
\* get_closest_intersection and never None, rays through a screen corner
\* included.
C1_AlwaysHits ==
    (Closed /\ StrictlyInside(ray.origin) /\ HasScreenEdges(segments))
        => closest # None

\* the ray's line cut with a segment's line, and whether the ray accepts it
Cut(r, line) ==
    compute_line_line_intersection(
        << <<E(r.origin[1]), E(r.origin[2])>>, r.direction >>, ELine(line))

Accepts(r, line) ==
    /\ Cut(r, line).exc = "none"
    /\ QSgn(Cut(r, line).u) > 0
    /\ QLess(Cut(r, line).u, <<E(1), E(1)>>)
    /\ QSgn(Cut(r, line).t) >= 0

\* C3: get_closest_intersection accepts a segment exactly when the lines are
\* not parallel, 0 < u < 1 and t >= 0; it returns the point of the accepted
\* segment with the smallest t, the earliest in the list among equals, and
\* None exactly when it accepts none; no exception leaves it.
C3_Closest ==
    Closed =>
        LET accepted == {i \in DOMAIN segments : Accepts(ray, segments[i])}
            t(i) == Cut(ray, segments[i]).t
            first == CHOOSE i \in accepted :
                         \A j \in accepted :
                             \/ QLess(t(i), t(j))
                             \/ ~QLess(t(j), t(i)) /\ i <= j
        IN  /\ raised = "none"
            /\ (closest = None) <=> (accepted = {})
            /\ accepted # {} =>
                   closest = <<Cut(ray, segments[first]).x, Cut(ray, segments[first]).y>>

\* a point was returned where two accepted segments tie for the smallest t,
\* a farther segment is accepted too, and others are parallel or rejected
C3_Witness ==
    /\ Closed
    /\ closest # None
    /\ \E i, j \in DOMAIN segments :
           /\ i < j
           /\ Accepts(ray, segments[i]) /\ Accepts(ray, segments[j])
           /\ Cut(ray, segments[i]).t = Cut(ray, segments[j]).t
           /\ \E k \in DOMAIN segments :
                  /\ Accepts(ray, segments[k])
                  /\ QLess(Cut(ray, segments[i]).t, Cut(ray, segments[k]).t)
    /\ \E l \in DOMAIN segments : Cut(ray, segments[l]).exc = "ZeroDivisionError"
    /\ \E m \in DOMAIN segments :
           Cut(ray, segments[m]).exc = "none" /\ ~Accepts(ray, segments[m])

(***************************************************************************)
(* Map(shapes) for every list of at most MapPolygons of some of the SHAPES  *)
(* (open and closed outlines, thin walls, walls that cross).  The           *)
(* background and the baked lights of a Map are pixels and are left out.    *)
(***************************************************************************)
MapPolygons == 2

\* an outline that crosses itself at (500, 150), where SHAPES[4] and SHAPES[5]
\* cross too
Knot == << <<450, 150>>, <<550, 150>>, <<500, 200>>, <<500, 100>> >>

\* a wall that ends at (500, 150)
Spur == << <<500, 150>>, <<600, 150>> >>

MapShapes == {SHAPES[i] : i \in {1, 3, 4, 5, 7, 8, 15, 16}} \cup {Knot, Spur}

RECURSIVE ListsOf(_, _)
ListsOf(S, n) ==
    IF n = 0 THEN {<<>>}
    ELSE ListsOf(S, n - 1) \cup {Append(l, x) : l \in ListsOf(S, n - 1), x \in S}

MapInit ==
    /\ shapes \in ListsOf(MapShapes, MapPolygons)
    /\ polygons = <<>> /\ lines = <<>> /\ ray_targets = <<>>
    /\ KernelIdle /\ RayIdle /\ CasterIdle
    /\ mouse = <<0, 0>>
    /\ call = "none"
    /\ args = NoArgs
    /\ raised = "none"

\* Map.__init__
NewMap ==
    /\ call = "none"
    /\ polygons' = shapes
    /\ lines' = get_lines(polygons')
    /\ ray_targets' = get_ray_targets(lines')
    /\ call' = "Map"
    /\ UNCHANGED <<shapes, kernelVars, rayVars, casterVars, mouse, args, raised>>

MapNext == NewMap

SpecMap == MapInit /\ [][MapNext]_vars

\* the number of lines _get_lines has appended before it reaches polygon i
RECURSIVE LinesBefore(_, _)
LinesBefore(polys, i) ==
    IF i = 1 THEN Len(SCREEN_EDGES)
    ELSE LinesBefore(polys, i - 1)
         + (IF Len(polys[i - 1]) > 2 THEN Len(polys[i - 1]) - 1 ELSE 1)

\* C10: _get_lines returns the 4 screen edges first, then per polygon in
\* input order: for N > 2 points the N-1 segments (p_k, p_k+1), which chain
\* into the polygon's own vertex sequence with no closing edge added, and for
\* exactly 2 points that one segment; the polygons given are left as they were.
C10_Lines ==
    call = "Map" =>
        /\ polygons = shapes
        /\ SubSeq(lines, 1, Len(SCREEN_EDGES)) = SCREEN_EDGES
        /\ Len(lines) = LinesBefore(shapes, Len(shapes) + 1)
        /\ \A i \in DOMAIN shapes :
               LET N == Len(shapes[i])
                   at == LinesBefore(shapes, i)
               IN  IF N > 2
                   THEN /\ LinesBefore(shapes, i + 1) = at + N - 1
                        /\ \A k \in 1..(N - 1) :
                               lines[at + k] = <<shapes[i][k], shapes[i][k + 1]>>
                   ELSE /\ N = 2
                        /\ LinesBefore(shapes, i + 1) = at + 1
                        /\ lines[at + 1] = shapes[i]

\* a Map was built from a thin wall and an open outline of more than 2 points
C10_Witness ==
    /\ call = "Map"
    /\ Len(shapes) = 2
    /\ Len(shapes[1]) = 2
    /\ Len(shapes[2]) > 2
    /\ shapes[2][1] # shapes[2][Len(shapes[2])]

\* q is a point of the segment a-b
Within(q, a, b) ==
    /\ Side(a, b, q) = 0
    /\ Sgn(FracSub(q[1], a[1])[1]) * Sgn(FracSub(q[1], b[1])[1]) <= 0
    /\ Sgn(FracSub(q[2], a[2])[1]) * Sgn(FracSub(q[2], b[2])[1]) <= 0

\* C11 as stated: no point is listed twice in the targets of a Map.
C11_Unique ==
    call = "Map" =>
        \A k, m \in DOMAIN ray_targets : k # m => ray_targets[k] # ray_targets[m]

\* C11: the targets of a Map are a list: the two endpoints of every segment,
\* segment by segment (a point that ends several segments is listed once for
\* each), followed by the intersection points, each listed once among them;
\* the intersection points are exactly the points where two distinct segments
\* cross inside both (t and u strictly between 0 and 1: a segment with
\* itself, parallel segments and segments that only touch give none), and
\* every target lies on at least one segment.
C11_Targets ==
    call = "Map" =>
        LET n == Len(lines)
            N == Len(ray_targets)
            a(i) == Pt(lines[i][1])
            b(i) == Pt(lines[i][2])
            at(q, i, j) == /\ i # j
                           /\ Crosses(a(i), b(i), a(j), b(j))
                           /\ Side(a(i), b(i), q) = 0
                           /\ Side(a(j), b(j), q) = 0
        IN  /\ N >= 2 * n
            /\ \A i \in 1..n : /\ ray_targets[2 * i - 1] = a(i)
                                /\ ray_targets[2 * i] = b(i)
            /\ \A k \in (2 * n + 1)..N :
                   \E i, j \in 1..n : at(ray_targets[k], i, j)
            /\ \A k, m \in (2 * n + 1)..N :
                   k # m => ray_targets[k] # ray_targets[m]
            /\ \A i, j \in 1..n :
                   (i # j /\ Crosses(a(i), b(i), a(j), b(j))) =>
                       \E k \in (2 * n + 1)..N : at(ray_targets[k], i, j)
            /\ \A k \in 1..N : \E i \in 1..n : Within(ray_targets[k], a(i), b(i))

\* a Map was built whose segments cross at one point in several pairs, with
\* a segment that ends at that very point
C11_Witness ==
    /\ call = "Map"
    /\ Len(ray_targets) > 2 * Len(lines)
    /\ \E k \in (2 * Len(lines) + 1)..Len(ray_targets) :
           /\ \E m \in 1..(2 * Len(lines)) : ray_targets[m] = ray_targets[k]
           /\ Cardinality({i \in DOMAIN lines :
                  Within(ray_targets[k], Pt(lines[i][1]), Pt(lines[i][2]))}) >= 3

(***************************************************************************)
(* A ShadowCaster in the Map of a few scenes (no obstacle, one thin wall,   *)
(* two walls that cross, a triangle and a square), called in any order     *)
(* with positions inside the screen, on a wall and outside the screen, and *)
(* with the Map's targets, no targets, or targets that repeat a point, lie *)
(* on one line with the caster and include the caster's own position       *)
(***************************************************************************)
CasterScenes == {<<>>, <<SHAPES[4]>>, <<SHAPES[4], SHAPES[5]>>, <<SHAPES[1], SHAPES[3]>>}

CasterPositions == {<<400, 300>>, <<500, 150>>, <<-100, 300>>}

OtherTargets ==
    <<Pt(<<400, 300>>), Pt(<<600, 300>>), Pt(<<800, 300>>), Pt(<<600, 300>>),
      Pt(<<500, 150>>)>>

CasterTargets == {ray_targets, <<>>, OtherTargets}

CasterInit ==
    /\ shapes \in CasterScenes
    /\ polygons = shapes
    /\ lines = get_lines(polygons)
    /\ ray_targets = get_ray_targets(lines)
    /\ position \in CasterPositions
    /\ rays = <<>>
    /\ triangles = <<>>
    /\ KernelIdle /\ RayIdle
    /\ mouse = <<0, 0>>
    /\ call = "none"
    /\ args = NoArgs
    /\ raised = "none"

SetPosition(p) ==
    /\ position' = p
    /\ call' = "set_position"
    /\ args' = NoArgs
    /\ raised' = "none"
    /\ UNCHANGED <<rays, triangles, kernelVars, rayVars, mapVars, mouse>>

CastRays(points) ==
    /\ rays' = cast_rays(position, points)
    /\ call' = "cast_rays"
    /\ args' = [lines |-> <<>>, targets |-> points]
    /\ raised' = "none"
    /\ UNCHANGED <<position, triangles, kernelVars, rayVars, mapVars, mouse>>

UpdateTriangles(lns, targets) ==
    LET leave(done) ==
            /\ rays' = done.self.rays
            /\ triangles' = done.self.triangles
            /\ raised' = done.exc
    IN  /\ leave(update_triangles(
                  [position |-> position, rays |-> rays, triangles |-> triangles],
                  lns, targets))
        /\ call' = "update_triangles"
        /\ args' = [lines |-> lns, targets |-> targets]
        /\ UNCHANGED <<position, kernelVars, rayVars, mapVars, mouse>>

CasterNext ==
    \/ \E p \in CasterPositions : SetPosition(p)
    \/ \E points \in CasterTargets : CastRays(points)
    \/ \E targets \in CasterTargets : UpdateTriangles(lines, targets)

SpecCaster == CasterInit /\ [][CasterNext]_vars

Cast == call = "cast_rays" \/ call = "update_triangles"

\* C6: after cast_rays the rays are in non-decreasing order of angle and are
\* exactly 2 per distinct target point, one at the target's angle - error and
\* one at its angle + error, whether the points repeat, lie on one line with
\* the caster or include the caster's own position.
C6_Rays ==
    Cast =>
        LET targets == {args.targets[i] : i \in DOMAIN args.targets}
            at(a, k) == {i \in DOMAIN rays : rays[i].theta = [c |-> a, e |-> k]}
            aimed(a) == {q \in targets : angle_to(position, q) = a}
        IN  /\ Len(rays) = 2 * Cardinality(targets)
            /\ \A i \in 1..(Len(rays) - 1) :
                   ~AngleLess(rays[i + 1].theta, rays[i].theta)
            /\ \A i \in DOMAIN rays : rays[i].origin = position
            /\ \A p \in targets :
                   LET a == angle_to(position, p)
                   IN  /\ Cardinality(at(a, -error[2])) = Cardinality(aimed(a))
                       /\ Cardinality(at(a, error[2])) = Cardinality(aimed(a))

\* rays were cast at points that repeat, with two distinct points at one
\* angle and one point the caster's own position
C6_Witness ==
    /\ call = "cast_rays"
    /\ Len(rays) > 0
    /\ \E i, j \in DOMAIN args.targets : i # j /\ args.targets[i] = args.targets[j]
    /\ \E i, j \in DOMAIN args.targets :
           /\ args.targets[i] # args.targets[j]
           /\ angle_to(position, args.targets[i]) = angle_to(position, args.targets[j])
    /\ \E i \in DOMAIN args.targets : args.targets[i] = Pt(position)

C7_WitnessEmpty ==
    /\ call = "update_triangles"
    /\ args.targets = <<>>
    /\ raised = "IndexError"
    /\ triangles = <<>>

\* update_triangles has returned for the Map's own segments and targets
Resolved ==
    /\ call = "update_triangles"
    /\ raised = "none"
    /\ args = [lines |-> lines, targets |-> ray_targets]

EmptyRoom ==
    /\ call = "update_triangles"
    /\ shapes = <<>>
    /\ position = <<400, 300>>
    /\ args = [lines |-> lines, targets |-> ray_targets]

\* C9 as stated: in the empty room the fan has exactly 4 triangles.
C9_FourTriangles == EmptyRoom => Len(triangles) = 4

\* C9: in the empty room update_triangles resolves a fan of exactly 8
\* triangles with apex (400, 300), two rays to each screen corner (at its
\* angle - error and + error); with the error taken to 0 the hits are the
\* corners BR, BR, BL, BL, TL, TL, TR, TR, so four triangles span one screen
\* edge each and alternate with four slivers across the corners, and the
\* triangles, all turning the same way, add up to the 800 x 600 screen; no hit
\* is a corner itself.
C9_EightTriangles ==
    EmptyRoom =>
        LET corners == <<SCREEN_BR, SCREEN_BR, SCREEN_BL, SCREEN_BL,
                         SCREEN_TL, SCREEN_TL, SCREEN_TR, SCREEN_TR>>
            hit(i) == StdPt(triangles[i][2])
            next(i) == StdPt(triangles[i][3])
            twice(i) == (hit(i)[1][1] - position[1]) * (next(i)[2][1] - position[2])
                        - (hit(i)[2][1] - position[2]) * (next(i)[1][1] - position[1])
            edge(i) == <<corners[i], corners[(i % 8) + 1]>>
        IN  /\ raised = "none"
            /\ Len(rays) = 8
            /\ Len(triangles) = 8
            /\ \A i \in 1..8 :
                   /\ triangles[i][1] = position
                   /\ triangles[i][3] = triangles[(i % 8) + 1][2]
                   /\ hit(i) = Pt(corners[i])
                   /\ triangles[i][2] # <<Quot(E(corners[i][1]), E(1)),
                                           Quot(E(corners[i][2]), E(1))>>
                   /\ twice(i) >= 0
                   /\ (i % 2 = 1) => twice(i) = 0
                   /\ (i % 2 = 0) =>
                          \E k \in DOMAIN SCREEN_EDGES :
                              \/ SCREEN_EDGES[k] = edge(i)
                              \/ SCREEN_EDGES[k] = <<edge(i)[2], edge(i)[1]>>
            /\ twice(1) + twice(2) + twice(3) + twice(4) + twice(5) + twice(6)
                   + twice(7) + twice(8) = 2 * SCREEN_WIDTH * SCREEN_HEIGHT

\* update_triangles has run in the empty room
C9_Witness == EmptyRoom /\ raised = "none" /\ Len(triangles) > 0

(***************************************************************************)
(* The Game: the Map of SHAPES and the cursor caster, created at (0, 0);    *)
(* between two updates the main loop reads the events, and the mouse may    *)
(* have gone anywhere: inside the screen (next to a corner, on a vertex of  *)
(* a polygon, on the crossing of two walls), on its border or outside it    *)
(***************************************************************************)
MousePositions ==
    {<<1, 1>>, <<799, 599>>, <<200, 200>>, <<500, 150>>,
     <<0, 0>>, <<800, 600>>, <<0, 300>>, <<800, 300>>, <<400, 0>>, <<400, 600>>,
     <<-1, 300>>, <<400, 601>>}

GameInit ==
    /\ shapes = SHAPES
    /\ polygons = shapes
    /\ lines = get_lines(polygons)
    /\ ray_targets = get_ray_targets(lines)
    /\ position = <<0, 0>>
    /\ rays = <<>>
    /\ triangles = <<>>
    /\ mouse \in MousePositions
    /\ KernelIdle /\ RayIdle
    /\ call = "none"
    /\ args = NoArgs
    /\ raised = "none"

\* pg.event.get() in the main loop: pg.mouse.get_pos() has a new value
MouseMove(p) ==
    /\ raised = "none"
    /\ mouse' = p
    /\ UNCHANGED <<kernelVars, rayVars, mapVars, casterVars, call, args, raised>>

\* Game.update; an exception it raises ends the main loop
Update ==
    /\ raised = "none"
    /\ IF ~cursor_inside(mouse[1], mouse[2])
       THEN /\ call' = "update"
            /\ args' = NoArgs
            /\ UNCHANGED <<casterVars, raised>>
       ELSE LET leave(done) ==
                    /\ rays' = done.self.rays
                    /\ triangles' = done.self.triangles
                    /\ raised' = done.exc
            IN  /\ position' = mouse
                /\ leave(update_triangles(
                             [position |-> mouse, rays |-> rays, triangles |-> triangles],
                             lines, ray_targets))
                /\ call' = "update_triangles"
                /\ args' = [lines |-> lines, targets |-> ray_targets]
    /\ UNCHANGED <<kernelVars, rayVars, mapVars, mouse>>

GameNext ==
    \/ \E p \in MousePositions : MouseMove(p)
    \/ Update

SpecGame == GameInit /\ [][GameNext]_vars

\* C2: whatever the cursor positions of the updates so far, no update has
\* raised the TypeError of an unresolved ray; the cursor caster's
\* update_triangles has run only at positions strictly inside the screen (an
\* update with the cursor elsewhere leaves the caster as it was, at (0, 0)
\* with no rays until the first run), and every run has resolved all of its
\* rays into a fan.
C2_Guarded ==
    /\ raised = "none"
    /\ call = "update_triangles" =>
           /\ StrictlyInside(position)
           /\ rays # <<>>
           /\ Len(triangles) = Len(rays)
    /\ ~StrictlyInside(position) =>
           /\ position = <<0, 0>>
           /\ rays = <<>>
           /\ triangles = <<>>

\* update_triangles has run with the cursor next to a corner of the screen,
\* and a later update with the cursor on the border was skipped
C2_Witness ==
    /\ call = "update"
    /\ position = <<1, 1>>
    /\ Len(triangles) > 0
    /\ mouse = <<0, 300>>

\* C12: the caster never holds a non-empty fan whose apex is not its current
\* position or whose number of triangles is not its current number of rays,
\* whatever calls of set_position, cast_rays and update_triangles came before.
C12_Coherent ==
    triangles # <<>> =>
        /\ \A i \in DOMAIN triangles : triangles[i][1] = position
        /\ Len(triangles) = Len(rays)

====
